---- MODULE Spec2Model ----
(***************************************************************************)
(* GalleryEngine (src/src/GalleryEngine.js): the runtime engine that keeps *)
(* one thumbnail object URL per index entry and at most one animation      *)
(* object URL, created on tap and revoked on stop / switch / dispose.      *)
(*                                                                         *)
(* Every handler of the engine runs to completion (single-threaded event   *)
(* loop), so each handler is one action.  The handlers are written as      *)
(* functions from an engine state record to an engine state record, so     *)
(* that a handler which calls another (handleTap -> stopActiveAnimation -> *)
(* playAnimation, dispose -> stopActiveAnimation) is their composition.    *)
(* An exception thrown by a handler keeps the writes made before it.       *)
(***************************************************************************)
EXTENDS Integers, Sequences, FiniteSets, TLC

(***************************************************************************)
(* Bounds of the model.                                                    *)
(***************************************************************************)
\* Object URLs (thumbnail and animation) created over one engine's life.
MaxUrls == 4
\* Object URLs created by the second engine.
MaxPeerUrls == 3

(***************************************************************************)
(* Values.                                                                 *)
(***************************************************************************)
\* JavaScript null, for an id or an element reference.
Null == "null"
\* null for a URL (activeState.animUrl), also the src of an element the
\* engine has not written yet.
NoUrl == 0
\* What Map.get returns for a missing key; an element's src after
\* imgEl.src = undefined.
Undefined == -1
\* null for this.buffer / this.indexMap (no blob).
NoBlob == 0

(***************************************************************************)
(* The packed blobs a fetch can return, by number.  A blob is its byte     *)
(* length, the uint32 at offset 0 (headerLen), whether the headerLen bytes *)
(* after it are valid JSON, and the entries of the index in the order of    *)
(* the JSON text.  Offsets are relative to the payload base 4 + headerLen. *)
(***************************************************************************)
NoRange == [offset |-> -1, length |-> -1]

Entry(id, w, h, thumb, anim) ==
    [id |-> id, width |-> w, height |-> h, thumb |-> thumb, anim |-> anim]

Range(o, l) == [offset |-> o, length |-> l]

\* Two entries, payload of 24 bytes: the layout the build script writes.
BlobGood ==
    [len |-> 38, headerLen |-> 10, json |-> TRUE,
     index |-> << Entry("a", 10, 10, Range(0, 4), Range(4, 8)),
                  Entry("b", 20, 10, Range(12, 4), Range(16, 8)) >>]

\* Shorter than its declared header + index length.
BlobShort ==
    [len |-> 8, headerLen |-> 10, json |-> TRUE, index |-> << >>]

\* The first entry of the index has no thumb field.
BlobMalformed ==
    [len |-> 30, headerLen |-> 10, json |-> TRUE,
     index |-> << Entry("a", 10, 10, NoRange, Range(0, 8)),
                  Entry("b", 20, 10, Range(8, 4), Range(12, 4)) >>]

\* Another gallery, with other ids; a packer wrote the index text with the
\* entry "b" before the entry "1".
BlobOther ==
    [len |-> 38, headerLen |-> 10, json |-> TRUE,
     index |-> << Entry("b", 30, 20, Range(0, 4), Range(4, 8)),
                  Entry("1", 40, 20, Range(12, 4), Range(16, 8)) >>]

\* The index declares ranges that end beyond the 24 bytes of the payload:
\* the anim of a, the thumb of b.
BlobOverrun ==
    [len |-> 38, headerLen |-> 10, json |-> TRUE,
     index |-> << Entry("a", 10, 10, Range(0, 4), Range(4, 40)),
                  Entry("b", 20, 10, Range(22, 8), Range(12, 4)) >>]

Blobs == << BlobGood, BlobShort, BlobMalformed, BlobOther, BlobOverrun >>

BlobIds == 1 .. Len(Blobs)

\* The ids of the index text of blob b, in text order.
TextIds(b) == [i \in 1 .. Len(Blobs[b].index) |-> Blobs[b].index[i].id]

\* The array index an id is the canonical decimal form of, -1 for an id
\* that is no array index.
ArrayIndex(id) ==
    CASE id = "1" -> 1
      [] id = "2" -> 2
      [] OTHER -> -1

\* Entries ordered by ascending array index.
RECURSIVE SortByArrayIndex(_)
SortByArrayIndex(es) ==
    IF es = << >> THEN << >>
    ELSE LET i == CHOOSE k \in 1 .. Len(es) :
                      \A j \in 1 .. Len(es) :
                          ArrayIndex(es[k].id) <= ArrayIndex(es[j].id)
             rest == [j \in 1 .. Len(es) - 1 |->
                          IF j < i THEN es[j] ELSE es[j + 1]]
         IN  << es[i] >> \o SortByArrayIndex(rest)

\* The own properties of the object JSON.parse builds from the index text,
\* in the order Object.keys / Object.entries enumerate them: array-index
\* keys first, ascending, then the other keys in the order of the text.
OwnProperties(text) ==
    LET IsIndex(e) == ArrayIndex(e.id) >= 0
        IsName(e) == ArrayIndex(e.id) < 0
    IN  SortByArrayIndex(SelectSeq(text, IsIndex)) \o SelectSeq(text, IsName)

\* Object.entries(indexMap), and indexMap[id], for the index of blob b.
IndexOf(b) == IF b = NoBlob THEN << >> ELSE OwnProperties(Blobs[b].index)

\* Keys every object inherits from Object.prototype: indexMap[key] is a
\* function (truthy) although the index has no such entry.
Inherited == { "constructor" }

IndexIds(b) == { IndexOf(b)[i].id : i \in 1 .. Len(IndexOf(b)) }

Meta(b, id) ==
    LET ix == IndexOf(b)
    IN  ix[CHOOSE i \in 1 .. Len(ix) : ix[i].id = id]

(***************************************************************************)
(* The elements of the host page: tagName and dataset.id ("" when the      *)
(* element carries no data-id attribute).                                  *)
(***************************************************************************)
Elements == { "img_a", "img_b", "img_zz", "img_plain", "div_a" }

TagName(e) == IF e = "div_a" THEN "DIV" ELSE "IMG"

DataId(e) ==
    CASE e = "img_a" -> "a"
      [] e = "img_b" -> "b"
      [] e = "img_zz" -> "zz"
      [] e = "img_plain" -> ""
      [] e = "div_a" -> "a"
      [] e = "peer_a" -> "a"
      [] e = "peer_b" -> "b"

Ids == { "a", "b", "zz" }

\* The ids a host passes to getItemData.
QueryIds == Ids \cup { "1", "constructor" }

(***************************************************************************)
(* State.                                                                  *)
(***************************************************************************)
VARIABLES
    buffer,        \* this.buffer: the blob held, or NoBlob
    indexMap,      \* this.indexMap: the blob whose index is held, or NoBlob
    payloadStart,  \* this.payloadStart
    thumbUrls,     \* this.thumbUrls: id -> URL (a function on the ids set)
    activeState,   \* this.activeState: [id, imgEl, animUrl]
    observed,      \* targets of this.observer
    listening,     \* the click listener is attached to the container
    children,      \* the elements inside the container
    src,           \* element -> the URL its src shows
    urls,          \* the object URLs created so far: URL n is urls[n]
    revokes,       \* revokes[n]: how often URL n was passed to revokeObjectURL
    pending,       \* a load is in flight (its fetch has not settled)
    lastOp,        \* the handler that ran last: [name, el, blob]
    threw,         \* the handler that ran last ended by throwing / rejecting
    trace,         \* the platform calls the last handler made, in order
    ret,           \* what the last handler returned, for the two getters
    peer,          \* the fields of a second engine, on another container
    left,          \* elements with a queued "not intersecting" entry
    view,          \* element -> how much of it intersects the viewport
    bin,           \* a packed file on disk and what verifyBinFile said of it
    dist           \* the assets directory and what the build made of it

engineVars ==
    << buffer, indexMap, payloadStart, thumbUrls, activeState, observed,
       listening, children, src, urls, revokes >>

vars ==
    << buffer, indexMap, payloadStart, thumbUrls, activeState, observed,
       listening, children, src, urls, revokes, pending, lastOp,
       threw, trace, ret, peer, left, view, bin, dist >>

\* What lies outside the engine and its page.
auxVars == << peer, left, view, bin, dist >>

EmptyActive == [id |-> Null, imgEl |-> Null, animUrl |-> NoUrl]

EmptyMap == [i \in {} |-> NoUrl]

\* The images inside the container of the second engine.
PeerElements == { "peer_a", "peer_b" }

\* The second engine after construction; owned is the set of URLs its
\* handlers have created.
PeerInit ==
    [buffer |-> NoBlob, indexMap |-> NoBlob, payloadStart |-> 0,
     thumbUrls |-> EmptyMap, activeState |-> EmptyActive, observed |-> {},
     listening |-> TRUE, children |-> PeerElements,
     src |-> [e \in PeerElements |-> NoUrl], owned |-> {}]

\* The engine state as one record; threw and trace describe the handler
\* that is running.  A create event of the trace carries the byte range
\* [from, to) of buffer buf that backs the new URL.
St ==
    [buffer |-> buffer, indexMap |-> indexMap, payloadStart |-> payloadStart,
     thumbUrls |-> thumbUrls, activeState |-> activeState,
     observed |-> observed, listening |-> listening, children |-> children,
     src |-> src, urls |-> urls, revokes |-> revokes,
     threw |-> FALSE, trace |-> << >>]

\* Mutant of the second engine: the thumbnail map is one object shared by
\* all instances, not a field of each.
PeerStSharedThumbUrls ==
    [buffer |-> peer.buffer, indexMap |-> peer.indexMap,
     payloadStart |-> peer.payloadStart,
     thumbUrls |-> thumbUrls, activeState |-> peer.activeState,
     observed |-> peer.observed, listening |-> peer.listening,
     children |-> peer.children, src |-> peer.src,
     urls |-> urls, revokes |-> revokes,
     threw |-> FALSE, trace |-> << >>]

\* The state a handler of the second engine runs on: the fields of that
\* instance, and the URL registry of the page, which both engines use.
PeerSt ==
    [buffer |-> peer.buffer, indexMap |-> peer.indexMap,
     payloadStart |-> peer.payloadStart,
     thumbUrls |-> peer.thumbUrls, activeState |-> peer.activeState,
     observed |-> peer.observed, listening |-> peer.listening,
     children |-> peer.children, src |-> peer.src,
     urls |-> urls, revokes |-> revokes,
     threw |-> FALSE, trace |-> << >>]

Ev(name, el, url) ==
    [ev |-> name, el |-> el, url |-> url, buf |-> NoBlob, from |-> 0, to |-> 0]

(***************************************************************************)
(* Platform primitives.                                                    *)
(***************************************************************************)
Min(x, y) == IF x < y THEN x ELSE y

Max(x, y) == IF x > y THEN x ELSE y

\* ArrayBuffer.prototype.slice(begin, end) clamps both ends to the buffer.
SliceFrom(b, begin) == Max(0, Min(begin, Blobs[b].len))

SliceTo(b, begin, end) == Max(SliceFrom(b, begin), Min(end, Blobs[b].len))

\* URL.createObjectURL(new Blob([buffer.slice(begin, end)])): a fresh URL.
CreateObjectURL(s, kind, id, begin, end) ==
    LET u == [kind |-> kind, id |-> id]
    IN  [s EXCEPT !.urls = Append(@, u),
                  !.revokes = Append(@, 0),
                  !.trace = Append(@, [ev |-> "create", el |-> Null,
                                       url |-> Len(s.urls) + 1,
                                       buf |-> s.buffer,
                                       from |-> SliceFrom(s.buffer, begin),
                                       to |-> SliceTo(s.buffer, begin, end)])]

\* The URL the last CreateObjectURL returned.
NewUrl(s) == Len(s.urls)

\* URL.revokeObjectURL(url); a value that is no object URL is ignored.
RevokeObjectURL(s, url) ==
    IF url \in 1 .. Len(s.urls)
      THEN [s EXCEPT !.revokes[url] = @ + 1,
                     !.trace = Append(@, Ev("revoke", Null, url))]
      ELSE s

SetSrc(s, el, url) ==
    [s EXCEPT !.src[el] = url, !.trace = Append(@, Ev("src", el, url))]

Observe(s, el) ==
    [s EXCEPT !.observed = @ \cup {el},
              !.trace = Append(@, Ev("observe", el, NoUrl))]

Unobserve(s, el) ==
    [s EXCEPT !.observed = @ \ {el},
              !.trace = Append(@, Ev("unobserve", el, NoUrl))]

Throw(s) == [s EXCEPT !.threw = TRUE]

\* Map.get
MapGet(m, k) == IF k \in DOMAIN m THEN m[k] ELSE Undefined

\* Map.set
MapSet(m, k, v) == [x \in DOMAIN m \cup {k} |-> IF x = k THEN v ELSE m[x]]

(***************************************************************************)
(* Handlers, as functions of the engine state record.                      *)
(***************************************************************************)

\* initThumbnails, from entry i of the index on: one URL per entry, keyed
\* by id.  meta.thumb.offset throws a TypeError for an entry without a
\* thumb field, which ends the loop.
RECURSIVE InitThumbnailsFrom(_, _)
InitThumbnailsFrom(s, i) ==
    LET ix == IndexOf(s.indexMap)
    IN  IF i > Len(ix) THEN s
        ELSE IF ix[i].thumb = NoRange THEN Throw(s)
        ELSE LET begin == s.payloadStart + ix[i].thumb.offset
                 s1 == CreateObjectURL(s, "thumb", ix[i].id, begin,
                                       begin + ix[i].thumb.length)
                 s2 == [s1 EXCEPT !.thumbUrls =
                                    MapSet(@, ix[i].id, NewUrl(s1))]
             IN  InitThumbnailsFrom(s2, i + 1)

InitThumbnails(s) == InitThumbnailsFrom(s, 1)

\* load, from the point where the response body b has arrived: the code
\* after the second await runs without interruption.
LoadBody(s, b) ==
    LET s1 == [s EXCEPT !.buffer = b]
    IN  IF Blobs[b].len < 4 THEN Throw(s1)                    \* getUint32
        ELSE IF 4 + Blobs[b].headerLen > Blobs[b].len
               THEN Throw(s1)                                 \* new Uint8Array
        ELSE IF ~Blobs[b].json THEN Throw(s1)                 \* JSON.parse
        ELSE InitThumbnails([s1 EXCEPT
                                !.indexMap = b,
                                !.payloadStart = 4 + Blobs[b].headerLen])

\* Mutant of stopActiveAnimation: no early return when nothing is active;
\* observer.unobserve(null) then throws a TypeError.
StopWithoutGuard(s) ==
    IF s.activeState.id = Null THEN Throw(s)
    ELSE LET s1 == Unobserve(s, s.activeState.imgEl)
             s2 == SetSrc(s1, s.activeState.imgEl,
                          MapGet(s.thumbUrls, s.activeState.id))
             s3 == RevokeObjectURL(s2, s.activeState.animUrl)
         IN  [s3 EXCEPT !.activeState = EmptyActive]

\* Mutant of stopActiveAnimation: the element keeps showing the animation
\* URL (the thumbnail is not restored).
StopWithoutRestore(s) ==
    IF s.activeState.id = Null THEN s
    ELSE LET s1 == Unobserve(s, s.activeState.imgEl)
             s3 == RevokeObjectURL(s1, s.activeState.animUrl)
         IN  [s3 EXCEPT !.activeState = EmptyActive]

\* Mutant of stopActiveAnimation: the state is not reset after the revoke.
StopKeepsActiveState(s) ==
    IF s.activeState.id = Null THEN s
    ELSE LET s1 == Unobserve(s, s.activeState.imgEl)
             s2 == SetSrc(s1, s.activeState.imgEl,
                          MapGet(s.thumbUrls, s.activeState.id))
         IN  RevokeObjectURL(s2, s.activeState.animUrl)

\* Mutant of stopActiveAnimation: it revokes the URL it has just put back
\* into the element (the thumbnail) instead of the animation URL.
StopRevokesThumbnail(s) ==
    IF s.activeState.id = Null THEN s
    ELSE LET s1 == Unobserve(s, s.activeState.imgEl)
             s2 == SetSrc(s1, s.activeState.imgEl,
                          MapGet(s.thumbUrls, s.activeState.id))
             s3 == RevokeObjectURL(s2, s2.src[s.activeState.imgEl])
         IN  [s3 EXCEPT !.activeState = EmptyActive]

\* stopActiveAnimation
StopActiveAnimation(s) ==
    IF s.activeState.id = Null THEN s
    ELSE LET s1 == Unobserve(s, s.activeState.imgEl)
             s2 == SetSrc(s1, s.activeState.imgEl,
                          MapGet(s.thumbUrls, s.activeState.id))
             s3 == RevokeObjectURL(s2, s.activeState.animUrl)
         IN  [s3 EXCEPT !.activeState = EmptyActive]

\* playAnimation(id, imgEl)
PlayAnimation(s, id, imgEl) ==
    IF s.indexMap = NoBlob THEN Throw(s)             \* null[id]: TypeError
    ELSE IF id \notin IndexIds(s.indexMap)
      THEN IF id \in Inherited
             THEN Throw(s)              \* meta.anim is undefined: TypeError
             ELSE s                     \* warn and return
    ELSE LET meta == Meta(s.indexMap, id)
             begin == s.payloadStart + meta.anim.offset
             s1 == CreateObjectURL(s, "anim", id, begin,
                                   begin + meta.anim.length)
             s2 == [s1 EXCEPT !.activeState =
                       [id |-> id, imgEl |-> imgEl, animUrl |-> NewUrl(s1)]]
             s3 == SetSrc(s2, imgEl, NewUrl(s1))
         IN  Observe(s3, imgEl)

\* Mutant of handleTap: the old playback is stopped after the new one has
\* been started.
HandleTapStopLate(s, target) ==
    IF TagName(target) # "IMG" \/ DataId(target) = "" THEN s
    ELSE LET id == DataId(target)
         IN  IF s.activeState.id = id THEN StopActiveAnimation(s)
             ELSE LET old == s.activeState
                      s1 == PlayAnimation(s, id, target)
                  IN  IF old.id = Null \/ s1.activeState = old THEN s1
                      ELSE RevokeObjectURL(
                               SetSrc(Unobserve(s1, old.imgEl), old.imgEl,
                                      MapGet(s1.thumbUrls, old.id)),
                               old.animUrl)

\* Mutant of handleTap: a tap on another id plays it without stopping the
\* playback that is active.
HandleTapNoStop(s, target) ==
    IF TagName(target) # "IMG" \/ DataId(target) = "" THEN s
    ELSE LET id == DataId(target)
         IN  IF s.activeState.id = id THEN StopActiveAnimation(s)
             ELSE PlayAnimation(s, id, target)

\* Mutant of handleTap: the test of the tag name is missing.
HandleTapAnyTag(s, target) ==
    IF DataId(target) = "" THEN s
    ELSE LET id == DataId(target)
         IN  IF s.activeState.id = id THEN StopActiveAnimation(s)
             ELSE LET s1 == IF s.activeState.id # Null
                              THEN StopActiveAnimation(s) ELSE s
                  IN  PlayAnimation(s1, id, target)

\* handleTap(e), e.target = target
HandleTap(s, target) ==
    IF TagName(target) # "IMG" \/ DataId(target) = "" THEN s
    ELSE LET id == DataId(target)
         IN  IF s.activeState.id = id THEN StopActiveAnimation(s)
             ELSE LET s1 == IF s.activeState.id # Null
                              THEN StopActiveAnimation(s) ELSE s
                  IN  PlayAnimation(s1, id, target)

\* Mutant of the observer callback: it stops on an entry that intersects
\* instead of one that does not.
ObserverCallbackInverted(s, target, isIntersecting) ==
    IF isIntersecting /\ target = s.activeState.imgEl
      THEN StopActiveAnimation(s)
      ELSE s

\* Mutant of the observer callback: it stops on every entry that does not
\* intersect, whatever its target.
ObserverCallbackAnyTarget(s, target, isIntersecting) ==
    IF ~isIntersecting
      THEN StopActiveAnimation(s)
      ELSE s

\* Mutant of the observer callback: it drops every entry.
ObserverCallbackDropsEntry(s, target, isIntersecting) == s

\* The IntersectionObserver callback, for one entry.
ObserverCallback(s, target, isIntersecting) ==
    IF ~isIntersecting /\ target = s.activeState.imgEl
      THEN StopActiveAnimation(s)
      ELSE s

\* Revoke every value of the thumbnail map.
RECURSIVE RevokeAll(_, _)
RevokeAll(s, us) ==
    IF us = {} THEN s
    ELSE LET u == CHOOSE x \in us : \A y \in us : x <= y
         IN  RevokeAll(RevokeObjectURL(s, u), us \ {u})

\* Mutant of dispose: the click listener is not removed and the container
\* is not emptied.
DisposeKeepsListener(s) ==
    LET s1 == StopActiveAnimation(s)
        s2 == [s1 EXCEPT !.observed = {}]
        s3 == RevokeAll(s2, { s2.thumbUrls[k] : k \in DOMAIN s2.thumbUrls })
    IN  [s3 EXCEPT !.thumbUrls = EmptyMap,
                   !.buffer = NoBlob,
                   !.indexMap = NoBlob]

\* Mutant of dispose: the thumbnail map is not cleared, so a second dispose
\* revokes its URLs again.
DisposeKeepsThumbUrls(s) ==
    LET s1 == StopActiveAnimation(s)
        s2 == [s1 EXCEPT !.listening = FALSE,
                         !.observed = {}]
        s3 == RevokeAll(s2, { s2.thumbUrls[k] : k \in DOMAIN s2.thumbUrls })
    IN  [s3 EXCEPT !.buffer = NoBlob,
                   !.indexMap = NoBlob,
                   !.children = {}]

\* dispose
DisposeEngine(s) ==
    LET s1 == StopActiveAnimation(s)
        s2 == [s1 EXCEPT !.listening = FALSE,      \* removeEventListener
                         !.observed = {}]          \* observer.disconnect()
        s3 == RevokeAll(s2, { s2.thumbUrls[k] : k \in DOMAIN s2.thumbUrls })
    IN  [s3 EXCEPT !.thumbUrls = EmptyMap,
                   !.buffer = NoBlob,
                   !.indexMap = NoBlob,
                   !.children = {}]                \* container.innerHTML = ''

\* stopActiveAnimation when the assignment imgEl.src = ... throws: the
\* function has no try/finally, so the exception leaves it after the
\* unobserve, before revokeObjectURL and before the reset of activeState.
StopThrowingAtRestore(s) ==
    IF s.activeState.id = Null THEN s
    ELSE Throw(Unobserve(s, s.activeState.imgEl))

\* dispose when its call of stopActiveAnimation throws in that way: the
\* exception leaves dispose at its first statement.
DisposeThrowingAtStop(s) ==
    LET s1 == StopThrowingAtRestore(s)
    IN  IF s1.threw THEN s1 ELSE DisposeEngine(s)

(***************************************************************************)
(* The build script.  A file of the assets directory is its name, cut into *)
(* the stem and the extensions, whether sharp can process it, and the      *)
(* lengths of the thumbnail sharp makes of it and of the file itself.  A   *)
(* byte of the output is named by the file and the buffer it comes from.   *)
(***************************************************************************)
File(name, ok, thumb, anim) ==
    [name |-> name, ok |-> ok, thumb |-> thumb, anim |-> anim]

\* path.extname(file)
ExtName(f) == f.name[Len(f.name)]

\* The filter of readdirSync's result.
Supported(f) == ExtName(f) \in { ".webp", ".gif", ".mp4" }

\* String.prototype.replace(x, ''): the first occurrence of x is removed.
RECURSIVE RemoveFirst(_, _)
RemoveFirst(parts, x) ==
    IF parts = << >> THEN << >>
    ELSE IF Head(parts) = x THEN Tail(parts)
    ELSE << Head(parts) >> \o RemoveFirst(Tail(parts), x)

RECURSIVE Join(_)
Join(parts) == IF parts = << >> THEN "" ELSE Head(parts) \o Join(Tail(parts))

\* const id = file.replace(ext, '')
FileId(f) == Join(RemoveFirst(f.name, ExtName(f)))

\* The bytes of one buffer of file f.
Bytes(f, kind, n) == [i \in 1 .. n |-> << Join(f.name), kind, i >>]

\* indexMap[id] = entry: an existing key keeps its place.
IndexAssign(ix, e) ==
    IF \E i \in 1 .. Len(ix) : ix[i].id = e.id
      THEN [i \in 1 .. Len(ix) |-> IF ix[i].id = e.id THEN e ELSE ix[i]]
      ELSE Append(ix, e)

\* The loop over the files: a file sharp cannot process is skipped.
RECURSIVE BuildLoop(_, _, _, _)
BuildLoop(files, offset, ix, buffers) ==
    IF files = << >> THEN [indexMap |-> ix, buffers |-> buffers]
    ELSE LET f == Head(files)
         IN  IF ~f.ok THEN BuildLoop(Tail(files), offset, ix, buffers)
             ELSE BuildLoop(Tail(files),
                            offset + f.thumb + f.anim,
                            IndexAssign(ix,
                                Entry(FileId(f), 10, 10,
                                      Range(offset, f.thumb),
                                      Range(offset + f.thumb, f.anim))),
                            buffers \o Bytes(f, "thumb", f.thumb)
                                    \o Bytes(f, "anim", f.anim))

NoDist == [assets |-> << >>, status |-> "none", index |-> << >>,
           payload |-> << >>]

\* build(): the index is written as JSON.stringify enumerates it.
BuildDist(assets) ==
    LET files == SelectSeq(assets, Supported)
        r == BuildLoop(files, 0, << >>, << >>)
    IN  IF files = << >>
          THEN [assets |-> assets, status |-> "exit", index |-> << >>,
                payload |-> << >>]
          ELSE [assets |-> assets, status |-> "written",
                index |-> OwnProperties(r.indexMap), payload |-> r.buffers]

\* What a getter returns.  kind is "null" for null, "item" for the object
\* { url, width, height } of getItemData(id), "ids" for the array of
\* getAllIds, and "throw" when the call throws instead of returning.
NoRet ==
    [kind |-> "none", id |-> Null, url |-> NoUrl, width |-> 0, height |-> 0,
     ids |-> << >>]

RetNull(id) == [NoRet EXCEPT !.kind = "null", !.id = id]

RetItem(id, url, w, h) ==
    [NoRet EXCEPT !.kind = "item", !.id = id, !.url = url, !.width = w,
                  !.height = h]

RetIds(ids) == [NoRet EXCEPT !.kind = "ids", !.ids = ids]

\* getItemData(id)
GetItemData(s, id) ==
    IF s.indexMap = NoBlob THEN RetNull(id)
    ELSE IF id \in IndexIds(s.indexMap)
      THEN LET meta == Meta(s.indexMap, id)
           IN  RetItem(id, MapGet(s.thumbUrls, id), meta.width, meta.height)
    ELSE IF id \in Inherited
      THEN RetItem(id, MapGet(s.thumbUrls, id), Undefined, Undefined)
    ELSE RetNull(id)

\* Mutant of getAllIds: the ids in the order of the index text.
GetAllIdsInTextOrder(s) ==
    IF s.indexMap = NoBlob THEN RetIds(<< >>)
    ELSE RetIds(TextIds(s.indexMap))

\* getAllIds()
GetAllIds(s) ==
    IF s.indexMap = NoBlob THEN RetIds(<< >>)
    ELSE LET ix == IndexOf(s.indexMap)
         IN  RetIds([i \in 1 .. Len(ix) |-> ix[i].id])

\* Mutant of load: the buffer and the index are dropped before the fetch,
\* so a rejected fetch leaves the engine without them.
LoadRejectedAfterReset(s) ==
    Throw([s EXCEPT !.buffer = NoBlob, !.indexMap = NoBlob])

\* load when the fetch rejects or the response is not ok: the throw comes
\* before the first write to the engine, and the catch rethrows.
LoadRejected(s) == Throw(s)

(***************************************************************************)
(* The packed file on disk: the build script that writes it and            *)
(* verifyBinFile that reads it.  A file is the sequence of the fields      *)
(* written into it, each with its size in bytes, and the values of the     *)
(* fields a reader decodes: the bytes of the magic field, the number in    *)
(* the signature-length field, what the signature field holds ("hmac":     *)
(* the HMAC, under the configured key, of all bytes after it), the number  *)
(* in the index-length field and the kind of text in the index field.      *)
(***************************************************************************)
Field(name, size) == [name |-> name, size |-> size]

\* The byte 0.
Nul == "NUL"

\* bin-signature.json: magicNumber, and the digest size of its algorithm.
ConfigMagic == << "a", "i", "G", ".", "B", "I", "N" >>

DigestLen == 32

RECURSIVE SizeOf(_)
SizeOf(layout) ==
    IF layout = << >> THEN 0 ELSE Head(layout).size + SizeOf(Tail(layout))

\* The field that starts at byte offset off; the field "none" when no
\* field starts there.
RECURSIVE FieldAt(_, _)
FieldAt(layout, off) ==
    IF layout = << >> \/ off < 0 THEN Field("none", 0)
    ELSE IF off = 0 THEN Head(layout)
    ELSE FieldAt(Tail(layout), off - Head(layout).size)

NoValues ==
    [magic |-> << >>, sigLen |-> 0, sig |-> "none", jsonLen |-> 0,
     json |-> "none"]

\* build(): the file is headerBuffer (the index length), jsonBuffer (the
\* text of JSON.stringify(indexMap), an object) and the item buffers.
Build(jsonLen, payloadLen) ==
    [layout |-> << Field("jsonLength", 4), Field("json", jsonLen),
                   Field("payload", payloadLen) >>,
     values |-> [NoValues EXCEPT !.jsonLen = jsonLen, !.json = "object"]]

\* A file in the layout VERIFICATION.md draws: magic, version, signature
\* length, signature, then the data the build script writes.  A part of
\* size 0 is absent.
Signed(magic, sigLen, sigSize, sig, jsonLen, json, payloadLen) ==
    [layout |-> SelectSeq(<< Field("magic", 8), Field("version", 16),
                             Field("sigLen", 4),
                             Field("signature", sigSize),
                             Field("jsonLength", IF json = "none" THEN 0
                                                 ELSE 4),
                             Field("json", jsonLen),
                             Field("payload", payloadLen) >>,
                          LAMBDA f : f.size > 0),
     values |-> [magic |-> magic, sigLen |-> sigLen, sig |-> sig,
                 jsonLen |-> jsonLen, json |-> json]]

Verdict(valid, error) == [valid |-> valid, error |-> error]

\* magicBuffer.toString('utf-8').replace(/\0/g, ''): every byte 0 of the
\* eight is dropped, wherever it stands.
DecodeMagic(bytes) == SelectSeq(bytes, LAMBDA c : c # Nul)

\* Mutant of verifyBinFile: the signature is not compared.
VerifyWithoutSignature(f) ==
    LET size == SizeOf(f.layout)
        magic == IF FieldAt(f.layout, 0) = Field("magic", 8)
                   THEN DecodeMagic(f.values.magic) ELSE << "?" >>
        sigLen == f.values.sigLen
        dataLen == size - (28 + sigLen)
    IN  IF size < 28 THEN Verdict(FALSE, "size")
        ELSE IF magic # ConfigMagic THEN Verdict(FALSE, "magic")
        ELSE IF sigLen <= 0 \/ sigLen > 1024 THEN Verdict(FALSE, "sigLen")
        ELSE IF dataLen < 4 THEN Verdict(FALSE, "exception")
        ELSE IF f.values.json \in { "garbage", "null" }
          THEN Verdict(FALSE, "exception")
        ELSE Verdict(TRUE, "none")

\* verifyBinFile(binPath) for a file that exists, with bin-signature.json
\* readable.  Bytes read where the file has no such field are not the
\* value looked for.
VerifyBinFile(f) ==
    LET size == SizeOf(f.layout)
        magic == IF FieldAt(f.layout, 0) = Field("magic", 8)
                   THEN DecodeMagic(f.values.magic) ELSE << "?" >>
        sigLen == f.values.sigLen
        match == /\ FieldAt(f.layout, 28) = Field("signature", sigLen)
                 /\ sigLen = DigestLen
                 /\ f.values.sig = "hmac"
        dataLen == size - (28 + sigLen)
    IN  IF size < 28 THEN Verdict(FALSE, "size")
        ELSE IF magic # ConfigMagic THEN Verdict(FALSE, "magic")
        ELSE IF sigLen <= 0 \/ sigLen > 1024 THEN Verdict(FALSE, "sigLen")
        ELSE IF ~match THEN Verdict(FALSE, "signature")
        ELSE IF dataLen < 4 THEN Verdict(FALSE, "exception") \* readUInt32LE
        ELSE IF f.values.json \in { "garbage", "null" }
          THEN Verdict(FALSE, "exception")   \* JSON.parse, Object.keys(null)
        ELSE Verdict(TRUE, "none")

\* verifyBinSignature(buffer, secretKey, algorithm) with the configured key
\* and 'SHA-256': the DataView and the Uint8Array throw a RangeError past
\* the end of the buffer, which the catch turns into false.  The magic
\* number and the version are skipped, the index is not parsed.
VerifyBinSignature(f) ==
    LET size == SizeOf(f.layout)
        signatureLength == f.values.sigLen
    IN  IF size < 28 THEN FALSE                      \* getUint32(24, true)
        ELSE IF 28 + signatureLength > size THEN FALSE   \* new Uint8Array
        ELSE /\ FieldAt(f.layout, 28) = Field("signature", signatureLength)
             /\ signatureLength = DigestLen
             /\ f.values.sig = "hmac"

(***************************************************************************)
(* bin-utils.js on a signed file: the prefix (magic 8, version 16,         *)
(* signature length 4, signature) followed by one of the packed blobs.     *)
(***************************************************************************)
SignedBlob(sigLen, b) == [sigLen |-> sigLen, core |-> b]

FileSize(f) == 8 + 16 + 4 + f.sigLen + Blobs[f.core].len

\* parseBinHeader(buffer): a DataView or Uint8Array that reaches past the
\* end of the buffer throws a RangeError, JSON.parse a SyntaxError.
ParseBinHeader(f) ==
    LET core == Blobs[f.core]
        dataStartOffset == 8 + 16 + 4 + f.sigLen
        jsonLength == core.headerLen
        thrown == [threw |-> TRUE, dataStartOffset |-> 0, jsonLength |-> 0,
                   indexMap |-> NoBlob, binaryDataOffset |-> 0]
    IN  IF core.len < 4 THEN thrown                          \* getUint32
        ELSE IF 4 + jsonLength > core.len THEN thrown        \* new Uint8Array
        ELSE IF ~core.json THEN thrown                       \* JSON.parse
        ELSE [threw |-> FALSE, dataStartOffset |-> dataStartOffset,
              jsonLength |-> jsonLength, indexMap |-> f.core,
              binaryDataOffset |-> dataStartOffset + 4 + jsonLength]

\* What extractFromBin returns: null, or an object whose data is the bytes
\* from .. to of the file.
ExtractedNull(f, id, type) ==
    [kind |-> "null", file |-> f, id |-> id, type |-> type,
     from |-> 0, to |-> 0, width |-> 0, height |-> 0]

Extracted(f, id, type, from, to, w, h) ==
    [kind |-> "extract", file |-> f, id |-> id, type |-> type,
     from |-> from, to |-> to, width |-> w, height |-> h]

\* item[type] for an entry of the index.
Resource(item, type) == IF type = "thumb" THEN item.thumb ELSE item.anim

\* Mutant of extractFromBin: the offset of a resource is counted from the
\* index length field, not from the end of the index.
ExtractFromDataStart(f, id, type) ==
    LET header == ParseBinHeader(f)
    IN  IF header.threw THEN ExtractedNull(f, id, type)
        ELSE IF id \notin IndexIds(header.indexMap)
          THEN ExtractedNull(f, id, type)
        ELSE LET item == Meta(header.indexMap, id)
                 resource == Resource(item, type)
                 actualOffset == header.dataStartOffset + resource.offset
                 from == Max(0, Min(actualOffset, FileSize(f)))
                 to == Max(from, Min(actualOffset + resource.length,
                                     FileSize(f)))
             IN  IF resource = NoRange THEN ExtractedNull(f, id, type)
                 ELSE Extracted(f, id, type, from, to, item.width,
                                item.height)

\* extractFromBin(buffer, id, type): the whole body is inside try/catch.
\* For an inherited key (header.indexMap["constructor"]) item is a
\* function, item[type] is undefined and the result is null as well.
ExtractFromBin(f, id, type) ==
    LET header == ParseBinHeader(f)
    IN  IF header.threw THEN ExtractedNull(f, id, type)         \* catch
        ELSE IF id \notin IndexIds(header.indexMap)
          THEN ExtractedNull(f, id, type)
        ELSE LET item == Meta(header.indexMap, id)
                 resource == Resource(item, type)
                 actualOffset == header.binaryDataOffset + resource.offset
                 from == Max(0, Min(actualOffset, FileSize(f)))
                 to == Max(from, Min(actualOffset + resource.length,
                                     FileSize(f)))
             IN  IF resource = NoRange THEN ExtractedNull(f, id, type)
                 ELSE Extracted(f, id, type, from, to, item.width,
                                item.height)

\* No file, no verdict.
NoFile == [layout |-> << >>, values |-> NoValues]

NoVerdict == Verdict(FALSE, "not run")

\* What verifyBinSignature resolved to, once it has run.
NoAnswer == [run |-> FALSE, value |-> FALSE]

NoBin == [built |-> FALSE, file |-> NoFile, verdict |-> NoVerdict,
          isValid |-> NoAnswer]

(***************************************************************************)
(* Actions.                                                                *)
(***************************************************************************)
\* A handler call: its name and the element it was given.
Op(name, el) == [name |-> name, el |-> el, blob |-> NoBlob]

\* load has run on the response body b.
LoadOp(b) == [name |-> "load", el |-> Null, blob |-> b]

\* The handler's result s becomes the next state.
Write(s, op) ==
    /\ lastOp' = op
    /\ ret' = NoRet
    /\ Len(s.urls) - Cardinality(peer.owned) <= MaxUrls
    /\ buffer' = s.buffer
    /\ indexMap' = s.indexMap
    /\ payloadStart' = s.payloadStart
    /\ thumbUrls' = s.thumbUrls
    /\ activeState' = s.activeState
    /\ observed' = s.observed
    /\ listening' = s.listening
    /\ children' = s.children
    /\ src' = s.src
    /\ urls' = s.urls
    /\ revokes' = s.revokes
    /\ threw' = s.threw
    /\ trace' = s.trace

\* The step of the engine leaves the second engine and the observer's
\* queue alone.
Commit(s, op) == Write(s, op) /\ UNCHANGED auxVars

InitEngine ==
    /\ buffer = NoBlob
    /\ indexMap = NoBlob
    /\ payloadStart = 0
    /\ thumbUrls = EmptyMap
    /\ activeState = EmptyActive
    /\ observed = {}
    /\ listening = TRUE
    /\ children = Elements
    /\ src = [e \in Elements |-> NoUrl]
    /\ urls = << >>
    /\ revokes = << >>
    /\ pending = FALSE
    /\ threw = FALSE
    /\ lastOp = Op("new", Null)
    /\ trace = << >>
    /\ ret = NoRet
    /\ peer = PeerInit
    /\ left = {}
    /\ view = [e \in Elements |-> "full"]

Init == InitEngine /\ bin = NoBin /\ dist = NoDist

\* load(binUrl) is called: the fetch is in flight.  Nothing of the engine
\* is written before the two awaits have resumed.
LoadCall ==
    /\ ~pending
    /\ pending' = TRUE
    /\ threw' = FALSE
    /\ lastOp' = Op("loadCall", Null)
    /\ trace' = << >>
    /\ ret' = NoRet
    /\ UNCHANGED << engineVars, auxVars >>

\* fetch rejects, or answers with a status that is not ok: load rejects.
LoadFetchFails ==
    /\ pending
    /\ pending' = FALSE
    /\ Commit(LoadRejected(St), Op("loadFail", Null))

\* The body b arrives and load runs to its end.
LoadCompletes(b) ==
    /\ pending
    /\ pending' = FALSE
    /\ Commit(LoadBody(St, b), LoadOp(b))

\* A click on element e inside the container reaches the listener.
Click(e) ==
    /\ listening
    /\ e \in children
    /\ Commit(HandleTap(St, e), Op("tap", e))
    /\ UNCHANGED pending

\* A direct call engine.playAnimation(id, imgEl), as the README shows it:
\* the element is the one that carries the id.
CallPlayAnimation(e) ==
    /\ TagName(e) = "IMG"
    /\ DataId(e) # ""
    /\ Commit(PlayAnimation(St, DataId(e), e), Op("play", e))
    /\ UNCHANGED pending

\* A direct call engine.stopActiveAnimation().
CallStopActiveAnimation ==
    /\ Commit(StopActiveAnimation(St), Op("stop", Null))
    /\ UNCHANGED pending

\* The observer delivers an entry for an element it observes or observed
\* (entries queued before unobserve are still delivered).
Notify(e, isIntersecting) ==
    /\ src[e] # NoUrl
    /\ Commit(ObserverCallback(St, e, isIntersecting),
              Op(IF isIntersecting THEN "notifyIn" ELSE "notifyOut", e))
    /\ UNCHANGED pending

\* engine.dispose()
Dispose ==
    /\ Commit(DisposeEngine(St), Op("dispose", Null))
    /\ UNCHANGED pending

\* A direct call engine.handleTap({ target: e }): the method is public and
\* needs neither the listener nor the element inside the container.
CallHandleTap(e) ==
    /\ Commit(HandleTap(St, e), Op("handleTap", e))
    /\ UNCHANGED pending

\* A getter returns r; it writes nothing.
Return(r, name) ==
    /\ ret' = r
    /\ threw' = (r.kind = "throw")
    /\ lastOp' = Op(name, Null)
    /\ trace' = << >>
    /\ UNCHANGED << engineVars, pending, auxVars >>

\* engine.getItemData(id)
CallGetItemData(id) == Return(GetItemData(St, id), "getItemData")

\* engine.getAllIds()
CallGetAllIds == Return(GetAllIds(St), "getAllIds")

(***************************************************************************)
(* The engine with a failing platform call: the write of src throws.       *)
(***************************************************************************)
StopFails ==
    /\ ~(activeState = EmptyActive)
    /\ Commit(StopThrowingAtRestore(St), Op("stopFails", Null))
    /\ UNCHANGED pending

DisposeFails ==
    /\ ~(activeState = EmptyActive)
    /\ Commit(DisposeThrowingAtStop(St), Op("disposeFails", Null))
    /\ UNCHANGED pending

NextFaults ==
    \/ LoadCall
    \/ LoadCompletes(1)
    \/ \E e \in Elements : Click(e)
    \/ CallStopActiveAnimation
    \/ \E e \in Elements : Notify(e, FALSE)
    \/ Dispose
    \/ StopFails
    \/ DisposeFails

SpecFaults == Init /\ [][NextFaults]_vars

(***************************************************************************)
(* The observer as a queue: an observed element leaves the viewport, the   *)
(* observer queues an entry for it and calls the callback later.  The      *)
(* platform delivers every queued entry, hence the weak fairness of        *)
(* Deliver.  The user does not tap while an entry waits for delivery.      *)
(***************************************************************************)
\* Element e, which the observer observes, stops intersecting the viewport
\* (threshold 0): an entry for it is queued.
Leave(e) ==
    /\ e \in observed
    /\ e \notin left
    /\ left' = left \cup {e}
    /\ UNCHANGED << engineVars, pending, lastOp, threw, trace, ret, peer,
                    view, bin, dist >>

\* The queued entry of e reaches the callback.
Deliver(e) ==
    /\ e \in left
    /\ left' = left \ {e}
    /\ Write(ObserverCallback(St, e, FALSE), Op("notifyOut", e))
    /\ UNCHANGED << pending, peer, view, bin, dist >>

\* A click while no entry is waiting.
ClickInView(e) ==
    /\ left = {}
    /\ Click(e)

NextLive ==
    \/ LoadCall
    \/ \E b \in BlobIds : LoadCompletes(b)
    \/ \E e \in Elements : ClickInView(e)
    \/ \E e \in Elements : Leave(e)
    \/ \E e \in Elements : Deliver(e)
    \/ Dispose

SpecLive ==
    /\ Init
    /\ [][NextLive]_vars
    /\ \A e \in Elements : WF_vars(Deliver(e))

(***************************************************************************)
(* The observer and the viewport.  The observer is built with threshold 0: *)
(* it calls back when an observed element starts or stops intersecting the *)
(* viewport at all, and an entry is intersecting as long as any part of    *)
(* its element is inside.  The callback runs at the step of the crossing.  *)
(* (The entry that observe() itself queues reports an element the user has *)
(* just tapped, which intersects: the callback ignores it.)                *)
(***************************************************************************)
Visibility == { "full", "part", "none" }

\* The elements the page scrolls in and out.
ScrollElements == { "img_a", "img_b" }

\* Mutant of isIntersecting: the observer counts only a fully visible
\* element as intersecting.
IsIntersectingFully(v) == v = "full"

\* entry.isIntersecting of an element of visibility v, for threshold 0.
IsIntersecting(v) == v # "none"

\* The page scrolls: the visibility of e becomes v.
Scroll(e, v) ==
    /\ view[e] # v
    /\ view' = [view EXCEPT ![e] = v]
    /\ IF e \in observed /\ IsIntersecting(view[e]) # IsIntersecting(v)
         THEN Write(ObserverCallback(St, e, IsIntersecting(v)),
                    Op(IF IsIntersecting(v) THEN "notifyIn" ELSE "notifyOut",
                       e))
         ELSE /\ lastOp' = Op("scroll", e)
              /\ threw' = FALSE
              /\ trace' = << >>
              /\ ret' = NoRet
              /\ UNCHANGED engineVars
    /\ UNCHANGED << pending, peer, left, bin, dist >>

\* The user clicks an element they can see.
ClickVisible(e) ==
    /\ view[e] # "none"
    /\ Click(e)

NextView ==
    \/ LoadCall
    \/ LoadCompletes(1)
    \/ \E e \in Elements : ClickVisible(e)
    \/ \E e \in ScrollElements, v \in Visibility : Scroll(e, v)
    \/ CallStopActiveAnimation
    \/ Dispose

SpecView == Init /\ [][NextView]_vars

(***************************************************************************)
(* Building dist/data.bin from an assets directory.                        *)
(***************************************************************************)
AssetFiles ==
    { File(<< "a", ".webp" >>, TRUE, 1, 2),
      File(<< "a", ".gif" >>, TRUE, 2, 1),
      File(<< "b", ".webp" >>, TRUE, 1, 1),
      File(<< "1", ".webp" >>, TRUE, 1, 2),
      File(<< "2", ".webp" >>, TRUE, 2, 2),
      File(<< "bad", ".webp" >>, FALSE, 0, 3),
      File(<< "notes", ".txt" >>, TRUE, 0, 1) }

\* What readdirSync returns: the files of a directory, in the order of the
\* file system.
MaxFiles == 3

AssetDirs ==
    { d \in UNION { [1 .. n -> AssetFiles] : n \in 1 .. MaxFiles } :
        \A i, j \in 1 .. Len(d) : i # j => d[i] # d[j] }

InitBuild ==
    /\ InitEngine
    /\ bin = NoBin
    /\ dist \in { [NoDist EXCEPT !.assets = d] : d \in AssetDirs }

\* npm run build
RunBuild ==
    /\ dist.status = "none"
    /\ dist' = BuildDist(dist.assets)
    /\ UNCHANGED << engineVars, pending, lastOp, threw, trace, ret, peer,
                    left, view, bin >>

NextBuild == RunBuild

SpecBuild == InitBuild /\ [][NextBuild]_vars

(***************************************************************************)
(* Packing and verifying a file.  The engine takes no part.                *)
(***************************************************************************)
\* The sizes of the index text and of the item buffers the build script
\* is run on: an index without entries, one entry, two entries.
BuildInputs == { << 2, 0 >>, << 30, 24 >>, << 60, 48 >> }

\* The files handed to verifyBinFile that another writer has produced.
SignedFiles ==
    { Signed(magic, sigLen, sigSize, sig, data[1], data[2], data[3]) :
        magic \in { ConfigMagic \o << Nul >>,
                    << "a", "i", "G", Nul, ".", "B", "I", "N" >>,
                    << "a", "i", "G", ".", "B", "I", "N", "2" >> },
        sigLen \in { 0, 16, 32, 1024, 1025 },
        sigSize \in { 0, 16, 32 },
        sig \in { "hmac", "other" },
        data \in { << 0, "none", 0 >>, << 2, "object", 0 >>,
                   << 30, "object", 24 >>, << 4, "null", 0 >>,
                   << 30, "garbage", 24 >> } }

InitVerify ==
    /\ InitEngine
    /\ bin \in { NoBin } \cup
                { [built |-> FALSE, file |-> f, verdict |-> NoVerdict,
                   isValid |-> NoAnswer] :
                    f \in SignedFiles }
    /\ dist = NoDist

\* npm run build
BuildBin(in) ==
    /\ bin = NoBin
    /\ bin' = [built |-> TRUE, file |-> Build(in[1], in[2]),
               verdict |-> NoVerdict, isValid |-> NoAnswer]
    /\ UNCHANGED << engineVars, pending, lastOp, threw, trace, ret, peer,
                    left, view, dist >>

\* npm run verify
VerifyBin ==
    /\ bin.file # NoFile
    /\ bin.verdict = NoVerdict
    /\ bin' = [bin EXCEPT !.verdict = VerifyBinFile(bin.file)]
    /\ UNCHANGED << engineVars, pending, lastOp, threw, trace, ret, peer,
                    left, view, dist >>

\* The page fetches the file and awaits verifyBinSignature.
VerifySignature ==
    /\ bin.file # NoFile
    /\ ~bin.isValid.run
    /\ bin' = [bin EXCEPT !.isValid =
                   [run |-> TRUE, value |-> VerifyBinSignature(bin.file)]]
    /\ UNCHANGED << engineVars, pending, lastOp, threw, trace, ret, peer,
                    left, view, dist >>

NextVerify ==
    \/ \E in \in BuildInputs : BuildBin(in)
    \/ VerifyBin
    \/ VerifySignature

SpecVerify == InitVerify /\ [][NextVerify]_vars

(***************************************************************************)
(* Extracting a resource from a signed file.                               *)
(***************************************************************************)
ExtractFiles ==
    { SignedBlob(sigLen, b) : sigLen \in { 16, 32, 64 }, b \in BlobIds }

ResourceTypes == { "thumb", "anim" }

\* extractFromBin(buffer, id, type)
Extract(f, id, type) ==
    /\ ret' = ExtractFromBin(f, id, type)
    /\ lastOp' = [name |-> "extractFromBin", el |-> Null, blob |-> f.core]
    /\ threw' = FALSE
    /\ trace' = << >>
    /\ UNCHANGED << engineVars, pending, auxVars >>

NextExtract ==
    \E f \in ExtractFiles, id \in QueryIds, type \in ResourceTypes :
        Extract(f, id, type)

SpecExtract == Init /\ [][NextExtract]_vars

(***************************************************************************)
(* Two engines on one page.  The handlers of the second engine are the     *)
(* handlers above, run on its own fields.                                  *)
(***************************************************************************)
PeerWrite(s, op) ==
    /\ lastOp' = op
    /\ ret' = NoRet
    /\ peer' = [buffer |-> s.buffer, indexMap |-> s.indexMap,
                payloadStart |-> s.payloadStart, thumbUrls |-> s.thumbUrls,
                activeState |-> s.activeState, observed |-> s.observed,
                listening |-> s.listening, children |-> s.children,
                src |-> s.src,
                owned |-> peer.owned \cup (Len(urls) + 1 .. Len(s.urls))]
    /\ Cardinality(peer'.owned) <= MaxPeerUrls
    /\ urls' = s.urls
    /\ revokes' = s.revokes
    /\ threw' = s.threw
    /\ trace' = s.trace
    /\ UNCHANGED << buffer, indexMap, payloadStart, thumbUrls, activeState,
                    observed, listening, children, src, pending, left,
                    view, bin, dist >>

\* A load of the second engine, from call to settlement.
PeerLoad(b) ==
    PeerWrite(LoadBody(PeerSt, b),
              [name |-> "peerLoad", el |-> Null, blob |-> b])

PeerClick(e) ==
    /\ peer.listening
    /\ e \in peer.children
    /\ PeerWrite(HandleTap(PeerSt, e), Op("peerTap", e))

PeerStop == PeerWrite(StopActiveAnimation(PeerSt), Op("peerStop", Null))

PeerNotify(e, isIntersecting) ==
    /\ peer.src[e] # NoUrl
    /\ PeerWrite(ObserverCallback(PeerSt, e, isIntersecting),
                 Op(IF isIntersecting THEN "peerNotifyIn"
                                      ELSE "peerNotifyOut", e))

PeerDispose == PeerWrite(DisposeEngine(PeerSt), Op("peerDispose", Null))

PeerOps ==
    { "peerLoad", "peerTap", "peerStop", "peerNotifyIn", "peerNotifyOut",
      "peerDispose" }

NextTwo ==
    \/ LoadCall
    \/ LoadCompletes(1)
    \/ \E e \in Elements : Click(e)
    \/ CallStopActiveAnimation
    \/ \E e \in Elements : Notify(e, FALSE)
    \/ Dispose
    \/ PeerLoad(1)
    \/ \E e \in PeerElements : PeerClick(e)
    \/ PeerStop
    \/ \E e \in PeerElements : PeerNotify(e, FALSE)
    \/ PeerDispose

SpecTwo == Init /\ [][NextTwo]_vars

Next ==
    \/ LoadCall
    \/ LoadFetchFails
    \/ \E b \in BlobIds : LoadCompletes(b)
    \/ \E e \in Elements : Click(e)
    \/ \E e \in Elements : CallPlayAnimation(e)
    \/ CallStopActiveAnimation
    \/ \E e \in Elements, isIntersecting \in BOOLEAN : Notify(e, isIntersecting)
    \/ Dispose
    \/ \E e \in Elements : CallHandleTap(e)
    \/ \E id \in QueryIds : CallGetItemData(id)
    \/ CallGetAllIds

Spec == Init /\ [][Next]_vars

\* The engine driven by events and by the calls that release: every
\* operation but a direct call of playAnimation.
NextEvents ==
    \/ LoadCall
    \/ LoadFetchFails
    \/ \E b \in BlobIds : LoadCompletes(b)
    \/ \E e \in Elements : Click(e)
    \/ CallStopActiveAnimation
    \/ \E e \in Elements, isIntersecting \in BOOLEAN : Notify(e, isIntersecting)
    \/ Dispose
    \/ \E e \in Elements : CallHandleTap(e)
    \/ \E id \in QueryIds : CallGetItemData(id)
    \/ CallGetAllIds

SpecEvents == Init /\ [][NextEvents]_vars

(***************************************************************************)
(* Vocabulary of the properties.                                           *)
(***************************************************************************)
UrlIds == 1 .. Len(urls)

AnimUrls == { n \in UrlIds : urls[n].kind = "anim" }

ThumbnailUrls == { n \in UrlIds : urls[n].kind = "thumb" }

\* Created and not yet revoked.
Live == { n \in UrlIds : revokes[n] = 0 }

Idle == activeState = EmptyActive

\* Event a of the trace comes before event b.
Before(tr, a, b) ==
    \E i, j \in 1 .. Len(tr) :
        /\ i < j
        /\ tr[i].ev = a.ev /\ tr[i].url = a.url /\ tr[i].el = a.el
        /\ tr[j].ev = b.ev /\ tr[j].url = b.url /\ tr[j].el = b.el

(***************************************************************************)
(* C1 (P1, single active): over every sequence of taps (with loads,        *)
(* visibility notifications, stops and dispose in between, but no direct   *)
(* playAnimation call), at most one animation URL is alive at any time.    *)
(* A property of SpecEvents.                                               *)
(***************************************************************************)
C1_SingleActive == Cardinality(AnimUrls \cap Live) <= 1

\* A tap has switched: one animation URL is alive, an earlier one is revoked.
C1_Witness ==
    /\ lastOp.name = "tap"
    /\ indexMap # NoBlob
    /\ Cardinality(AnimUrls \cap Live) = 1
    /\ \E n \in AnimUrls : revokes[n] = 1

(***************************************************************************)
(* C2: every animation URL is revoked exactly once: none is revoked twice, *)
(* and after dispose none is left unrevoked.  The code violates this: a    *)
(* direct playAnimation call while a playback is active overwrites         *)
(* activeState without revoking its URL.                                   *)
(***************************************************************************)
C2_AnimRevokedExactlyOnce ==
    /\ \A n \in AnimUrls : revokes[n] <= 1
    /\ lastOp.name = "dispose" => \A n \in AnimUrls : revokes[n] = 1

(***************************************************************************)
(* C3 (P2, release completeness): after dispose, whatever sequence of      *)
(* loads, taps, notifications and stops came before, every URL created     *)
(* (thumbnail or animation) has been revoked.  Stated under SpecEvents;    *)
(* the code violates it when load is called a second time: Map.set         *)
(* overwrites the thumbnail URLs of the first load, which nothing revokes. *)
(***************************************************************************)
C3_ReleaseComplete ==
    lastOp.name = "dispose" => \A n \in UrlIds : revokes[n] >= 1

(***************************************************************************)
(* C4: the active playback state is either empty in all three fields, or   *)
(* populated in all three with the animation URL created for its id and    *)
(* not revoked.                                                            *)
(***************************************************************************)
C4_ActiveStateWhole ==
    \/ activeState = EmptyActive
    \/ /\ activeState.id # Null
       /\ activeState.imgEl # Null
       /\ activeState.animUrl \in AnimUrls \cap Live
       /\ urls[activeState.animUrl].id = activeState.id

\* Populated after an earlier playback was stopped.
C4_Witness ==
    /\ activeState.id # Null
    /\ \E n \in AnimUrls : revokes[n] = 1

C7_StopIdleNoop ==
    [][(lastOp'.name = "stop" /\ Idle)
         => (UNCHANGED engineVars /\ ~threw' /\ trace' = << >>)]_vars

\* stopActiveAnimation has run on a loaded, Idle engine (a stop that finds
\* a playback leaves a trace).
C7_Witness ==
    /\ lastOp.name = "stop"
    /\ trace = << >>
    /\ Idle
    /\ indexMap # NoBlob
    /\ AnimUrls # {}

C9_UnknownIdNoChange ==
    [][\A e \in Elements :
         ( /\ lastOp' = Op("tap", e)
           /\ TagName(e) = "IMG" /\ DataId(e) # ""
           /\ indexMap # NoBlob
           /\ DataId(e) \notin IndexIds(indexMap) )
         => UNCHANGED engineVars
      ]_vars

(***************************************************************************)
(* C10: after dispose the active state is empty, nothing is observed, the  *)
(* thumbnail map is empty, buffer and index are cleared and the click      *)
(* listener is detached; from then on the listener stays detached and no   *)
(* click reaches handleTap.                                                *)
(***************************************************************************)
C10_AfterDispose ==
    [][/\ lastOp'.name = "dispose"
          => /\ Idle'
             /\ observed' = {}
             /\ thumbUrls' = EmptyMap
             /\ buffer' = NoBlob
             /\ indexMap' = NoBlob
             /\ ~listening'
             /\ children' = {}
       /\ ~listening => (~listening' /\ lastOp'.name # "tap")
      ]_vars

\* dispose has run on an engine that was playing: the last handler stopped
\* the playback and revoked the thumbnail URLs.
C10_Witness ==
    /\ lastOp.name = "dispose"
    /\ \E n \in AnimUrls, k \in ThumbnailUrls :
          Before(trace, Ev("revoke", Null, n), Ev("revoke", Null, k))

(***************************************************************************)
(* C11: dispose() is idempotent.  A dispose() that follows a dispose()     *)
(* does not throw, makes no platform call (so it revokes no URL a second   *)
(* time) and leaves every field of the engine, the page and the URLs as    *)
(* the first dispose() left them.                                          *)
(***************************************************************************)
C11_DisposeIdempotent ==
    [][ (lastOp.name = "dispose" /\ lastOp'.name = "dispose")
          => /\ ~threw'
             /\ trace' = << >>
             /\ UNCHANGED engineVars ]_vars

\* A second dispose() has run on an engine whose thumbnails the first one
\* revoked.
C11_Witness ==
    /\ lastOp.name = "dispose"
    /\ trace = << >>
    /\ ThumbnailUrls # {}
    /\ \A n \in ThumbnailUrls : revokes[n] = 1
    /\ thumbUrls = EmptyMap /\ indexMap = NoBlob /\ buffer = NoBlob

(***************************************************************************)
(* C12: once dispose() has run, every later call of handleTap,             *)
(* playAnimation, stopActiveAnimation, getItemData or getAllIds and every  *)
(* later observer notification either throws or changes nothing: it        *)
(* creates no URL, observes no element and leaves the active state empty;  *)
(* getItemData returns null and getAllIds returns the empty array.         *)
(***************************************************************************)
C12_InertAfterDispose ==
    [][ ( /\ ~listening
          /\ lastOp'.name \in { "handleTap", "play", "stop", "notifyIn",
                                "notifyOut", "getItemData", "getAllIds" } )
          => /\ threw' \/ UNCHANGED engineVars
             /\ urls' = urls
             /\ observed' \subseteq observed
             /\ Idle'
             /\ lastOp'.name = "getItemData" => ret'.kind = "null"
             /\ lastOp'.name = "getAllIds" => ret' = RetIds(<< >>) ]_vars

(***************************************************************************)
(* C13: a load whose fetch rejects, or answers with a status that is not   *)
(* ok, rejects to its caller and keeps no partial state: buffer, index,    *)
(* payload base and thumbnail map are what they were before the call, and  *)
(* no URL was created.                                                     *)
(***************************************************************************)
C13_FetchFailureKeepsState ==
    [][ lastOp'.name = "loadFail"
          => /\ threw'
             /\ buffer' = buffer
             /\ indexMap' = indexMap
             /\ payloadStart' = payloadStart
             /\ thumbUrls' = thumbUrls
             /\ urls' = urls
             /\ trace' = << >> ]_vars

\* A load has been rejected at its fetch on an engine that holds the index
\* and the thumbnails of an earlier load.
C13_Witness ==
    /\ lastOp.name = "loadFail"
    /\ threw
    /\ ~pending
    /\ indexMap # NoBlob
    /\ buffer = indexMap
    /\ DOMAIN thumbUrls = IndexIds(indexMap)

(***************************************************************************)
(* C14: after any sequence of loads, successful or failed, the index and   *)
(* the payload base stored are those of the buffer stored: whenever an     *)
(* index is set, index, payload base and buffer come from the same blob.   *)
(***************************************************************************)
C14_IndexOfBuffer ==
    indexMap # NoBlob
      => /\ buffer = indexMap
         /\ payloadStart = 4 + Blobs[indexMap].headerLen

(***************************************************************************)
(* C15: a load of a blob shorter than 4 + headerLen bytes fails and no     *)
(* index is set: after it getAllIds() returns the empty array and          *)
(* getItemData(id) returns null for every id.                              *)
(***************************************************************************)
C15_ShortBlobNoIndex ==
    [][ ( /\ lastOp'.name = "load"
          /\ 4 + Blobs[lastOp'.blob].headerLen > Blobs[lastOp'.blob].len )
          => /\ threw'
             /\ GetAllIds(St') = RetIds(<< >>)
             /\ \A id \in QueryIds : GetItemData(St', id) = RetNull(id) ]_vars

(***************************************************************************)
(* C16: an index entry without a thumb field is skipped by the thumbnail   *)
(* batch.  The load of a blob with such an entry still succeeds, and every *)
(* entry that has a thumb field, before or after the malformed one, has a  *)
(* live thumbnail URL in the map.                                          *)
(***************************************************************************)
C16_MalformedEntrySkipped ==
    [][ ( /\ lastOp'.name = "load"
          /\ indexMap' = lastOp'.blob
          /\ \E i \in 1 .. Len(IndexOf(indexMap')) :
                 IndexOf(indexMap')[i].thumb = NoRange )
          => /\ ~threw'
             /\ \A i \in 1 .. Len(IndexOf(indexMap')) :
                    LET meta == IndexOf(indexMap')[i]
                    IN  meta.thumb # NoRange
                          => /\ meta.id \in DOMAIN thumbUrls'
                             /\ thumbUrls'[meta.id] \in Live' ]_vars

(***************************************************************************)
(* C17: when a load succeeds, also a repeated one on the same engine, the  *)
(* thumbnail map holds exactly one live thumbnail URL per id of the        *)
(* current index, already when load returns: its key set is the id set of  *)
(* the index, and the URL stored under an id is a live thumbnail URL of    *)
(* that id.                                                                *)
(***************************************************************************)
C17_ThumbnailsOfCurrentIndex ==
    [][ (lastOp'.name = "load" /\ ~threw')
          => /\ indexMap' = lastOp'.blob
             /\ DOMAIN thumbUrls' = IndexIds(indexMap')
             /\ \A id \in DOMAIN thumbUrls' :
                    /\ thumbUrls'[id] \in Live'
                    /\ urls'[thumbUrls'[id]] = [kind |-> "thumb", id |-> id]
        ]_vars

(***************************************************************************)
(* C18: no operation but dispose revokes a thumbnail URL: a tap, a switch, *)
(* a stop and a reclamation by the observer leave every thumbnail URL as   *)
(* alive as it was.  The URL an operation creates for an animation is      *)
(* never one of the thumbnail URLs.                                        *)
(***************************************************************************)
C18_ThumbnailsOutliveAnimations ==
    [][ /\ lastOp'.name # "dispose"
          => \A n \in ThumbnailUrls : revokes'[n] = revokes[n]
        /\ \A k \in 1 .. Len(trace') :
              LET ev == trace'[k]
              IN  (ev.ev = "create" /\ urls'[ev.url].kind = "anim")
                    => /\ ev.url \notin ThumbnailUrls'
                       /\ \A id \in DOMAIN thumbUrls' :
                              thumbUrls'[id] # ev.url ]_vars

\* A tap has switched the playback (one animation URL revoked, another
\* created) and every thumbnail URL of the map is still alive.
C18_Witness ==
    /\ lastOp.name = "tap"
    /\ \E k \in 1 .. Len(trace) :
           trace[k].ev = "revoke" /\ trace[k].url \in AnimUrls
    /\ \E k \in 1 .. Len(trace) :
           trace[k].ev = "create" /\ trace[k].url = activeState.animUrl
    /\ DOMAIN thumbUrls # {}
    /\ \A id \in DOMAIN thumbUrls : thumbUrls[id] \in Live
    /\ activeState.id \in DOMAIN thumbUrls
    /\ thumbUrls[activeState.id] # activeState.animUrl

(***************************************************************************)
(* C19: getItemData(id) never throws.  It returns null when the index has  *)
(* no entry id (also when no index is set: before a load, after dispose);  *)
(* for an id of the index it returns the width and height of that entry    *)
(* and the live thumbnail URL stored for the id.                           *)
(***************************************************************************)
C19_GetItemData ==
    [][ lastOp'.name = "getItemData"
          => LET id == ret'.id
                 text == IF indexMap = NoBlob THEN << >>
                         ELSE Blobs[indexMap].index
                 at == { i \in 1 .. Len(text) : text[i].id = id }
             IN  /\ ~threw'
                 /\ ret'.kind \in { "null", "item" }
                 /\ at = {} => ret' = RetNull(id)
                 /\ \A i \in at :
                        /\ ret'.kind = "item"
                        /\ ret'.width = text[i].width
                        /\ ret'.height = text[i].height
                        /\ id \in DOMAIN thumbUrls
                        /\ ret'.url = thumbUrls[id]
                        /\ ret'.url \in Live ]_vars

(***************************************************************************)
(* C20, as claimed: getAllIds() returns the ids of the current index, each *)
(* once, in the order in which the entries appear in the index text, and   *)
(* the empty array when no index is set.                                   *)
(***************************************************************************)
C20_IdsInTextOrder ==
    [][ lastOp'.name = "getAllIds"
          => /\ ~threw'
             /\ ret'.kind = "ids"
             /\ ret'.ids = IF indexMap = NoBlob THEN << >>
                           ELSE TextIds(indexMap) ]_vars

(***************************************************************************)
(* C20, amended: getAllIds() returns the ids of the current index, each    *)
(* once, and the empty array when no index is set.  Ids that are array     *)
(* indices come first, in ascending numeric order; the other ids follow in *)
(* the order in which their entries appear in the index text.              *)
(***************************************************************************)
C20_IdsInKeyOrder ==
    [][ lastOp'.name = "getAllIds"
          => LET ids == ret'.ids
                 text == IF indexMap = NoBlob THEN << >>
                         ELSE TextIds(indexMap)
                 Pos(id) == CHOOSE p \in 1 .. Len(text) : text[p] = id
             IN  /\ ~threw'
                 /\ ret'.kind = "ids"
                 /\ { ids[i] : i \in 1 .. Len(ids) }
                      = { text[p] : p \in 1 .. Len(text) }
                 /\ \A i, j \in 1 .. Len(ids) :
                        i < j =>
                          /\ ids[i] # ids[j]
                          /\ ArrayIndex(ids[j]) >= 0
                               => /\ ArrayIndex(ids[i]) >= 0
                                  /\ ArrayIndex(ids[i]) < ArrayIndex(ids[j])
                          /\ (ArrayIndex(ids[i]) < 0 /\ ArrayIndex(ids[j]) < 0)
                               => Pos(ids[i]) < Pos(ids[j]) ]_vars

\* getAllIds() has returned the ids of an index whose text puts a name
\* before an array index: the array index comes first in the result.
C20_Witness ==
    /\ lastOp.name = "getAllIds"
    /\ indexMap # NoBlob
    /\ ret.ids # TextIds(indexMap)
    /\ Len(ret.ids) = 2
    /\ ArrayIndex(ret.ids[1]) >= 0
    /\ ArrayIndex(ret.ids[2]) < 0

(***************************************************************************)
(* C21: for a blob with an index of L bytes the payload base is 4 + L, and *)
(* every URL is backed by exactly the bytes its index entry names: the     *)
(* thumbnail URL of id X by the bytes [payloadStart + thumb.offset,        *)
(* payloadStart + thumb.offset + thumb.length) of the buffer of that blob, *)
(* the animation URL that a play of X creates by the bytes                 *)
(* [payloadStart + anim.offset, payloadStart + anim.offset + anim.length). *)
(***************************************************************************)
C21_ByteRanges ==
    [][ \A k \in 1 .. Len(trace') :
          trace'[k].ev = "create"
            => LET ev == trace'[k]
                   u == urls'[ev.url]
                   blob == Blobs[indexMap']
                   i == CHOOSE j \in 1 .. Len(blob.index) :
                            blob.index[j].id = u.id
                   range == IF u.kind = "thumb" THEN blob.index[i].thumb
                            ELSE blob.index[i].anim
               IN  /\ payloadStart' = 4 + blob.headerLen
                   /\ ev.buf = indexMap'
                   /\ ev.from = payloadStart' + range.offset
                   /\ ev.to = ev.from + range.length ]_vars

(***************************************************************************)
(* C22: two engines on separate containers share no state.  An operation   *)
(* on one engine (load, tap, stop, notification, dispose) leaves the       *)
(* active state, thumbnail map, buffer, index, observed set and elements   *)
(* of the other engine unchanged, and revokes none of the other engine's   *)
(* URLs.                                                                   *)
(***************************************************************************)
C22_Isolation ==
    [][ /\ lastOp'.name \in PeerOps
          => /\ UNCHANGED << buffer, indexMap, payloadStart, thumbUrls,
                             activeState, observed, listening, children,
                             src >>
             /\ \A n \in UrlIds \ peer.owned : revokes'[n] = revokes[n]
        /\ lastOp'.name \notin PeerOps
          => /\ peer' = peer
             /\ \A n \in peer.owned : revokes'[n] = revokes[n] ]_vars

\* The second engine has been disposed (its URLs revoked) while the first
\* one is playing with all its URLs alive.
C22_Witness ==
    /\ lastOp.name = "peerDispose"
    /\ peer.owned # {}
    /\ \A n \in peer.owned : revokes[n] = 1
    /\ ~Idle
    /\ activeState.animUrl \in Live
    /\ DOMAIN thumbUrls # {}
    /\ \A id \in DOMAIN thumbUrls : thumbUrls[id] \in Live

(***************************************************************************)
(* C23: a file the build script has written starts with the magic number,  *)
(* the version and an HMAC signature, and verifyBinFile returns            *)
(* valid: true for it.                                                     *)
(***************************************************************************)
C23_BuiltFileVerifies ==
    (bin.built /\ bin.verdict # NoVerdict)
      => /\ FieldAt(bin.file.layout, 0) = Field("magic", 8)
         /\ FieldAt(bin.file.layout, 8) = Field("version", 16)
         /\ FieldAt(bin.file.layout, 28).name = "signature"
         /\ bin.verdict.valid

(***************************************************************************)
(* C24: verifyBinFile never throws.  It returns valid: true only for a     *)
(* file of at least 28 bytes whose magic is the configured one, whose      *)
(* signature length is in 1..1024 and whose stored signature is the HMAC   *)
(* of everything from the index-length field on; for every other file, and *)
(* for one whose index does not parse, it returns valid: false with an     *)
(* error.                                                                  *)
(***************************************************************************)
C24_VerifyVerdict ==
    bin.verdict # NoVerdict
      => LET f == bin.file
             accepted ==
                 /\ SizeOf(f.layout) >= 28
                 /\ FieldAt(f.layout, 0).name = "magic"
                 /\ DecodeMagic(f.values.magic) = ConfigMagic
                 /\ f.values.sigLen \in 1 .. 1024
                 /\ FieldAt(f.layout, 28).name = "signature"
                 /\ FieldAt(f.layout, 28).size = f.values.sigLen
                 /\ f.values.sig = "hmac"
         IN  /\ bin.verdict.valid \in BOOLEAN
             /\ bin.verdict.valid => accepted
             /\ (~accepted \/ f.values.json = "garbage")
                  => (~bin.verdict.valid /\ bin.verdict.error # "none")

\* verifyBinFile has accepted a signed file, and its magic field holds a
\* zero byte in the middle of the configured text.
C24_Witness ==
    /\ bin.verdict.valid
    /\ ~bin.built
    /\ bin.file.values.sig = "hmac"
    /\ bin.file.values.magic # ConfigMagic \o << Nul >>

(***************************************************************************)
(* C25: in every reachable state the elements the observer observes are    *)
(* exactly the element of the active playback while the engine is playing, *)
(* and none while it is idle.                                              *)
(***************************************************************************)
C25_ObservedIsActive ==
    observed = IF Idle THEN {} ELSE { activeState.imgEl }

(***************************************************************************)
(* C26: a release path completes although one of its steps fails.  When    *)
(* the write of the thumbnail into the element throws during a stop, the   *)
(* element is still unobserved, the animation URL is still revoked and the *)
(* engine still becomes idle; when the stop throws during dispose, every   *)
(* thumbnail URL is still revoked.                                         *)
(***************************************************************************)
C26_ReleaseCompletes ==
    [][ /\ lastOp'.name = "stopFails"
          => /\ activeState.imgEl \notin observed'
             /\ revokes'[activeState.animUrl] >= 1
             /\ Idle'
        /\ lastOp'.name = "disposeFails"
          => \A id \in DOMAIN thumbUrls :
                 revokes'[thumbUrls[id]] >= 1 ]_vars

(***************************************************************************)
(* C27: a tap or a visibility notification that arrives while the engine   *)
(* has no index yet raises no exception, creates no URL and leaves the     *)
(* engine idle.                                                            *)
(***************************************************************************)
C27_GuardedBeforeLoad ==
    [][ ( /\ indexMap = NoBlob
          /\ listening
          /\ lastOp'.name \in { "tap", "notifyIn", "notifyOut" } )
        => ( ~threw' /\ urls' = urls /\ Idle' ) ]_vars

(***************************************************************************)
(* C28: when dispose() is called while a load is in flight, the load that  *)
(* settles afterwards does not re-populate the engine: after it the engine *)
(* holds no buffer, no index and no URL that is alive.                     *)
(***************************************************************************)
C28_DisposedStaysEmpty ==
    [][ ( /\ lastOp.name = "dispose"
          /\ pending
          /\ lastOp'.name \in { "load", "loadFail" } )
        => ( /\ buffer' = NoBlob
             /\ indexMap' = NoBlob
             /\ Live' = {} ) ]_vars

(***************************************************************************)
(* C29: a notification that reports its element as intersecting, or whose  *)
(* element is not the element of the active playback, changes nothing of   *)
(* the engine: active state, URLs, revocations and observed set stay as    *)
(* they were, no platform call is made and nothing is thrown.              *)
(***************************************************************************)
C29_OtherNotificationNoChange ==
    [][ ( \/ lastOp'.name = "notifyIn"
          \/ /\ lastOp'.name = "notifyOut"
             /\ lastOp'.el # activeState.imgEl )
        => ( UNCHANGED engineVars /\ ~threw' /\ trace' = << >> ) ]_vars

\* A late notification: its element has left the viewport, but another
\* element is playing by now.
C29_Witness ==
    /\ lastOp.name = "notifyOut"
    /\ ~Idle
    /\ lastOp.el # activeState.imgEl
    /\ activeState.animUrl \in Live
    /\ activeState.imgEl \in observed

(***************************************************************************)
(* C30: reclamation is live.  When the element of the active playback has  *)
(* left the viewport and its entry is waiting for delivery, then, with no  *)
(* further tap, the engine is eventually idle and the animation URL of     *)
(* that playback is revoked.  A property of SpecLive.                      *)
(***************************************************************************)
C30_ReclamationLive ==
    \A n \in 1 .. MaxUrls :
        ( /\ activeState.animUrl = n
          /\ activeState.imgEl \in left )
        ~> ( /\ Idle
             /\ n \in UrlIds
             /\ revokes[n] >= 1 )

\* The delivery of a queued entry has stopped the playback of its element.
C30_Witness ==
    /\ Idle
    /\ left = {}
    /\ \E n \in AnimUrls, e \in Elements :
          /\ lastOp = Op("notifyOut", e)
          /\ DataId(e) = urls[n].id
          /\ revokes[n] = 1
          /\ trace # << >>

(***************************************************************************)
(* C31: any departure of the playing element from full intersection        *)
(* reclaims: when the playing element goes from fully visible to partly    *)
(* visible, the playback is stopped and its animation URL revoked.  The    *)
(* observer has threshold 0, so the code does nothing at that step.        *)
(***************************************************************************)
C31_PartialDepartureReclaims ==
    [][\A e \in ScrollElements :
         ( /\ ~Idle
           /\ e = activeState.imgEl
           /\ e \in observed
           /\ view[e] = "full"
           /\ view'[e] = "part" )
         => ( Idle' /\ revokes'[activeState.animUrl] >= 1 )
      ]_vars

(***************************************************************************)
(* C31, amended: the playing element is reclaimed when it stops            *)
(* intersecting the viewport at all: the playback is stopped and its       *)
(* animation URL revoked.  Going from fully to partly visible changes      *)
(* nothing of the engine.                                                  *)
(***************************************************************************)
C31_FullDepartureReclaims ==
    [][\A e \in ScrollElements :
         ( /\ ~Idle
           /\ e = activeState.imgEl
           /\ e \in observed )
         => /\ ( view[e] # "none" /\ view'[e] = "none" )
               => ( Idle' /\ revokes'[activeState.animUrl] >= 1
                    /\ e \notin observed' )
            /\ ( view[e] = "full" /\ view'[e] = "part" )
               => UNCHANGED engineVars
      ]_vars

\* The playing element has scrolled out of the viewport and the callback
\* has reclaimed its playback at that step.
C31_Witness ==
    /\ Idle
    /\ \E n \in AnimUrls, e \in ScrollElements :
          /\ lastOp = Op("notifyOut", e)
          /\ view[e] = "none"
          /\ urls[n].id = DataId(e)
          /\ revokes[n] = 1
          /\ trace # << >>
          /\ Len(urls) = 3

(***************************************************************************)
(* C32: the file the build script writes follows the layout for every      *)
(* assets directory: every processed asset has an index entry of its own   *)
(* id, the anim range of an entry follows its thumb range, the ranges are  *)
(* contiguous in index order from 0 to the end of the payload, and the     *)
(* ranges of an asset's entry slice its thumbnail and its animation.       *)
(***************************************************************************)
Slice(bytes, range) ==
    SubSeq(bytes, range.offset + 1, range.offset + range.length)

Processed(assets) ==
    { assets[i] : i \in { j \in 1 .. Len(assets) :
                            Supported(assets[j]) /\ assets[j].ok } }

C32_BuildLayout ==
    dist.status = "written" =>
      LET ix == dist.index
          n == Len(ix)
      IN  /\ n = Cardinality(Processed(dist.assets))
          /\ \A i, j \in 1 .. n : i # j => ix[i].id # ix[j].id
          /\ \A i \in 1 .. n :
                ix[i].anim.offset = ix[i].thumb.offset + ix[i].thumb.length
          /\ n > 0 => ix[1].thumb.offset = 0
          /\ \A i \in 1 .. n - 1 :
                ix[i + 1].thumb.offset = ix[i].anim.offset + ix[i].anim.length
          /\ n > 0 => ix[n].anim.offset + ix[n].anim.length
                        = Len(dist.payload)
          /\ \A f \in Processed(dist.assets) :
                \E i \in 1 .. n :
                    /\ ix[i].id = FileId(f)
                    /\ Slice(dist.payload, ix[i].thumb)
                         = Bytes(f, "thumb", f.thumb)
                    /\ Slice(dist.payload, ix[i].anim)
                         = Bytes(f, "anim", f.anim)

(***************************************************************************)
(* C33: at every step of every operation on an engine that is not          *)
(* disposed, no element displays a revoked URL.  While the engine plays,   *)
(* the active element displays the active animation URL, which is alive;   *)
(* a stop writes a live thumbnail URL into the element before it revokes   *)
(* the animation URL, so the element of a stopped playback displays a live *)
(* thumbnail URL.                                                          *)
(***************************************************************************)
C33_NoRevokedDisplay ==
    [][ listening' =>
          LET SrcAt(e, j) ==
                  \* what e displays just before platform call j
                  LET writes == { i \in 1 .. j - 1 :
                                    trace'[i].ev = "src" /\ trace'[i].el = e }
                  IN  IF writes = {} THEN src[e]
                      ELSE trace'[CHOOSE i \in writes :
                                      \A k \in writes : k <= i].url
          IN  /\ \A e \in Elements :
                    src'[e] # NoUrl => src'[e] \in Live'
              /\ ~Idle' =>
                    /\ src'[activeState'.imgEl] = activeState'.animUrl
                    /\ activeState'.animUrl \in AnimUrls' \cap Live'
              /\ ( ~Idle /\ activeState'.imgEl # activeState.imgEl ) =>
                    src'[activeState.imgEl] \in ThumbnailUrls' \cap Live'
              /\ \A j \in 1 .. Len(trace') :
                    trace'[j].ev = "revoke" =>
                        \A e \in Elements : SrcAt(e, j) # trace'[j].url
      ]_vars

(***************************************************************************)
(* C34: every thumbnail URL that is alive is a value of the thumbnail map, *)
(* after any sequence of loads (a second load after a successful one, a    *)
(* retry after a load that failed among the thumbnails), so that dispose   *)
(* can revoke all of them.  The code violates this: Map.set replaces the   *)
(* URL of an id the earlier load had already stored.                       *)
(***************************************************************************)
C34_LiveThumbnailsMapped ==
    \A n \in ThumbnailUrls \cap Live :
        \E id \in DOMAIN thumbUrls : thumbUrls[id] = n

(***************************************************************************)
(* C35: a click inside the container on a target that is no image element  *)
(* or carries no id attribute leaves the engine as it is, in every state:  *)
(* a playback keeps playing, no URL is created or revoked, no platform     *)
(* call is made and nothing is thrown.                                     *)
(***************************************************************************)
C35_OtherTargetNoChange ==
    [][\A e \in Elements :
         ( /\ lastOp' = Op("tap", e)
           /\ ( TagName(e) # "IMG" \/ DataId(e) = "" ) )
         => ( UNCHANGED engineVars /\ ~threw' /\ trace' = << >> )
      ]_vars

\* A playback is running and the last click hit the DIV that carries the
\* id of another entry of the index.
C35_Witness ==
    /\ lastOp = Op("tap", "div_a")
    /\ ~Idle
    /\ activeState.id = "b"
    /\ activeState.animUrl \in Live
    /\ "a" \in IndexIds(indexMap)

(***************************************************************************)
(* C36: the two verification paths agree on every file: verifyBinSignature *)
(* with the configured key resolves to true exactly when verifyBinFile     *)
(* returns valid: true, also for a file with a wrong magic number, with a  *)
(* signature length out of range or with fewer than 28 bytes.              *)
(***************************************************************************)
C36_VerifiersAgree ==
    ( bin.verdict # NoVerdict /\ bin.isValid.run )
        => ( bin.isValid.value = bin.verdict.valid )

(***************************************************************************)
(* C37: extractFromBin never throws and returns null for an id the index   *)
(* does not hold and for a resource the entry does not have.  For a signed *)
(* file (prefix, then a packed blob) the bytes it returns for an id's      *)
(* thumb and anim are the bytes the engine slices for that thumbnail and   *)
(* that animation from the packed blob alone: the same range, moved by the *)
(* length of the prefix.                                                   *)
(***************************************************************************)
C37_ExtractAsEngine ==
    lastOp.name = "extractFromBin" =>
      LET f == ret.file
          b == f.core
          prefix == 8 + 16 + 4 + f.sigLen
          loaded == LoadBody(St, b)
          played == PlayAnimation([loaded EXCEPT !.trace = << >>,
                                                 !.threw = FALSE],
                                  ret.id, "img_a")
          Creates(s, kind) ==
              { s.trace[i] : i \in { j \in 1 .. Len(s.trace) :
                    /\ s.trace[j].ev = "create"
                    /\ s.urls[s.trace[j].url]
                         = [kind |-> kind, id |-> ret.id] } }
          sliced == IF ret.type = "thumb" THEN Creates(loaded, "thumb")
                    ELSE IF loaded.indexMap = NoBlob THEN {}
                    ELSE Creates(played, "anim")
          known == /\ ~ParseBinHeader(f).threw
                   /\ ret.id \in IndexIds(b)
                   /\ Resource(Meta(b, ret.id), ret.type) # NoRange
      IN  /\ ~threw
          /\ ~known => ret.kind = "null"
          /\ \A ev \in sliced :
                /\ ret.kind = "extract"
                /\ ret.from = prefix + ev.from
                /\ ret.to = prefix + ev.to

\* Bytes of a thumbnail were extracted from a file with a 32-byte
\* signature; the engine slices a thumbnail for the same id.
C37_Witness ==
    /\ lastOp.name = "extractFromBin"
    /\ ret.kind = "extract"
    /\ ret.type = "thumb"
    /\ ret.file = SignedBlob(32, 1)
    /\ ret.id = "b"
    /\ ret.to > ret.from
    /\ ret.from = 60 + 14 + 12

(***************************************************************************)
(* C38: every URL the engine creates is backed by a byte range inside the  *)
(* buffer.  load rejects a blob whose index declares a thumb or anim range *)
(* that ends beyond the buffer, so after a load that succeeded             *)
(* payloadStart + offset + length <= buffer length for every range of      *)
(* every entry, and every slice has the length its entry declares.         *)
(***************************************************************************)
C38_RangesInsideBuffer ==
    [][ /\ ( lastOp'.name = "load" /\ ~threw' ) =>
              \A i \in 1 .. Len(IndexOf(indexMap')) :
                  LET meta == IndexOf(indexMap')[i]
                  IN  /\ payloadStart' + meta.thumb.offset + meta.thumb.length
                           <= Blobs[buffer'].len
                      /\ payloadStart' + meta.anim.offset + meta.anim.length
                           <= Blobs[buffer'].len
        /\ \A j \in 1 .. Len(trace') :
              ( trace'[j].ev = "create" /\ indexMap' # NoBlob
                /\ urls'[trace'[j].url].id \in IndexIds(indexMap') ) =>
                  LET u == urls'[trace'[j].url]
                      meta == Meta(indexMap', u.id)
                      range == IF u.kind = "thumb" THEN meta.thumb
                               ELSE meta.anim
                  IN  trace'[j].to - trace'[j].from = range.length
      ]_vars

====
